---- MODULE Spec2Model ----
(***************************************************************************)
(* The roles package (roles_common_async.js): the Meteor.roles collection  *)
(* (the role graph), the Meteor.roleAssignment collection (assignments     *)
(* with their denormalised inheritedRoles) and the operations on them.     *)
(*                                                                         *)
(* Arrays of {_id} subdocuments (children, inheritedRoles) are modelled as *)
(* bags of role names, a function from every role name to the number of    *)
(* copies the array holds: no operation of the package reads an array      *)
(* position, and $push, $pull and the positional $set act on bags.         *)
(* A collection of assignment documents is a set of records whose field n  *)
(* counts the documents with the same content (the generated _id is the    *)
(* only thing that tells them apart).                                      *)
(***************************************************************************)
EXTENDS Integers, FiniteSets, Sequences, TLC

\* Bounds of the model.
MaxDocs == 1        \* assignment documents in Meteor.roleAssignment, Spec
MaxDocsScoped == 2  \* the same, SpecScoped
MaxCopies == 2      \* copies of one role name in one array
MaxPops == 24       \* iterations of the while loop of isParentOfAsync
MaxPasses == 6      \* passes of one do-while loop
MaxDocsConcurrent == 2  \* assignment documents, SpecConcurrent

RoleNames == {"admin", "editor", "viewer", "guest"}
Users == {"u1", "u2"}
\* Roles.GLOBAL_GROUP: null, the global scope
GLOBAL_GROUP == "null"
Scopes == {GLOBAL_GROUP, "s1"}

\* procs: the calls in progress that run store call by store call
\* users: the twoFactorAuthentication field of the documents of Meteor.users
VARIABLES roles, roleAssignment, last, procs, users
vars == <<roles, roleAssignment, last, procs, users>>

\* ------------------------------------------------------------------
\* Arrays of {_id: name} subdocuments, as bags
EmptyArr == [x \in RoleNames |-> 0]
ArrOf(S) == [x \in RoleNames |-> IF x \in S THEN 1 ELSE 0]
Concat(a, b) == [x \in RoleNames |-> a[x] + b[x]]
Has(a, x) == a[x] > 0
Ids(a) == {x \in RoleNames : a[x] > 0}
\* $push: {arr: {_id: x}}
Push(a, x) == [a EXCEPT ![x] = @ + 1]
\* $pull: {arr: {_id: x}} removes every matching element
Pull(a, x) == [a EXCEPT ![x] = 0]
\* $set: {'arr.$._id': new} on a document matched by 'arr._id': old
\* rewrites the first matching element only
SetFirst(a, old, new) ==
    IF old = new THEN a ELSE [a EXCEPT ![old] = @ - 1, ![new] = @ + 1]
Fits(a) == \A x \in RoleNames : a[x] <= MaxCopies

\* ------------------------------------------------------------------
\* Meteor.roleAssignment as a set of [user, role, scope, inheritedRoles, n]
RECURSIVE SumN(_)
SumN(D) == IF D = {} THEN 0
           ELSE LET d == CHOOSE d \in D : TRUE IN d.n + SumN(D \ {d})
\* countAsync of a selector
Count(matching) == SumN(matching)
\* removeAsync(selector)
Remove(A, matching) == A \ matching
\* updateAsync(selector, modifier, {multi: true}), updated[d] being document
\* d after the call (d itself when the selector does not match); documents
\* that become equal in content are counted together
UpdateMulti(A, updated) ==
    LET Strip(d) == [d EXCEPT !.n = 0]
        img == {Strip(updated[d]) : d \in A}
    IN  {[c EXCEPT !.n = SumN({d \in A : Strip(updated[d]) = c})] : c \in img}
\* insertAsync(doc)
Insert(A, doc) ==
    LET same == {d \in A : [d EXCEPT !.n = 0] = [doc EXCEPT !.n = 0]}
    IN  IF same = {} THEN A \cup {[doc EXCEPT !.n = 1]}
        ELSE (A \ same) \cup {[d EXCEPT !.n = @ + 1] : d \in same}

\* what an operation returns: the two collections and how it ended
Result(rs, as, err) == [roles |-> rs, roleAssignment |-> as, err |-> err]

\* find(...).fetchAsync() returns the matching documents in the store's
\* natural order, which the package does not control
Fetch(order, S) == SelectSeq(order, LAMBDA x : x \in S)

\* ------------------------------------------------------------------
\* Validation of names

\* String.prototype.trim, on the names the calls are made with
trim(name) ==
    IF name = " admin" THEN "admin"
    ELSE IF name = " s1" THEN "s1"
    ELSE name
\* _checkRoleName(roleName): TRUE when it returns, FALSE when it throws
_checkRoleName(roleName) ==
    ~(roleName = "" \/ trim(roleName) # roleName)
\* _checkScopeName(scopeName): TRUE when it returns, FALSE when it throws
_checkScopeName(scopeName) ==
    \/ scopeName = GLOBAL_GROUP
    \/ ~(scopeName = "" \/ trim(scopeName) # scopeName)

\* ------------------------------------------------------------------
\* Closure engine

\* _getParentRoleNamesAsync: the Set parentRoles grows while it is iterated
RECURSIVE ParentsFix(_, _)
ParentsFix(rs, parentRoles) ==
    LET found == {p \in DOMAIN rs : \E roleName \in parentRoles : Has(rs[p], roleName)}
    IN  IF found \subseteq parentRoles THEN parentRoles
        ELSE ParentsFix(rs, parentRoles \cup found)
_getParentRoleNamesAsync(rs, role) ==
    IF role \notin DOMAIN rs THEN {}
    ELSE ParentsFix(rs, {role}) \ {role}

\* findOneAsync({_id: name}) on Meteor.roles, for an existing name
RoleDoc(rs, name) == [_id |-> name, children |-> rs[name]]

\* for (const r in nestedRoles): for...in enumerates the enumerable
\* string-keyed properties of the object; a Set has none, whatever its
\* elements, so the loop body runs for no r
ForIn(nestedRoles) == {}
\* the loop body of _getInheritedRoleNamesAsync, run for the documents in
\* todo: the children that exist are fetched, named in inheritedRoles and
\* added to nestedRoles
RECURSIVE InheritedLoop(_, _, _)
InheritedLoop(rs, todo, inheritedRoles) ==
    IF todo = {} THEN inheritedRoles
    ELSE LET r == CHOOSE r \in todo : TRUE
             found == {r2 \in DOMAIN rs : Has(r.children, r2)}
             fresh == found \ inheritedRoles
         IN  InheritedLoop(rs, (todo \ {r}) \cup {RoleDoc(rs, r2) : r2 \in fresh},
                           inheritedRoles \cup found)
\* _getInheritedRoleNamesAsync(role), role a document of Meteor.roles
_getInheritedRoleNamesAsync(rs, role) ==
    LET nestedRoles == {role}
    IN  InheritedLoop(rs, ForIn(nestedRoles), {})

\* Roles._getParentRoleNames, the synchronous twin in roles_common.js
_getParentRoleNames(rs, role) ==
    IF role \notin DOMAIN rs THEN {}
    ELSE ParentsFix(rs, {role}) \ {role}

\* ------------------------------------------------------------------
\* Graph mutation operations

\* createRoleAsync(roleName, options): an existing role ends the call with
\* return null before options.unlessExists is read; insertAsync resolves to
\* the new _id, so the throw after it is never reached
createRoleAsync(rs, as, roleName, unlessExists) ==
    IF ~_checkRoleName(roleName) THEN Result(rs, as, "InvalidName")
    ELSE
    IF roleName \in DOMAIN rs
    THEN Result(rs, as, "null")      \* $setOnInsert without upsert: no write
    ELSE LET insertedId == roleName
             rs2 == [x \in DOMAIN rs \cup {roleName} |->
                       IF x = roleName THEN EmptyArr ELSE rs[x]]
         IN  IF insertedId = ""
             THEN Result(rs2, as, IF unlessExists THEN "null" ELSE "AlreadyExists")
             ELSE Result(rs2, as, "ok")

\* [r._id, ...inheritedRoles].map((r2) => ({_id: r2}))
WithInherited(r, inheritedRoles) == Concat(ArrOf({r}), ArrOf(inheritedRoles))

\* _addRoleToParentAsync without 'children._id': {$ne: role._id} in the
\* selector of its update of the parent
_addRoleToParentAsync_pushesAlways(rs, as, roleName, parentName) ==
    IF roleName \notin DOMAIN rs THEN Result(rs, as, "NotFound")
    ELSE
    LET role == RoleDoc(rs, roleName) IN
    IF parentName \in _getInheritedRoleNamesAsync(rs, role)
    THEN Result(rs, as, "CycleDetected")
    ELSE
    LET count == IF parentName \in DOMAIN rs THEN 1 ELSE 0
        rs2 == IF count = 1 THEN [rs EXCEPT ![parentName] = Push(@, role._id)]
               ELSE rs
        each == WithInherited(role._id, _getInheritedRoleNamesAsync(rs2, role))
    IN  IF count = 0 THEN Result(rs, as, "ok")
        ELSE Result(rs2,
                    UpdateMulti(as, [d \in as |->
                        IF Has(d.inheritedRoles, parentName)
                        THEN [d EXCEPT !.inheritedRoles = Concat(@, each)]
                        ELSE d]),
                    "ok")

\* _addRoleToParentAsync with its update of the parent made an upsert
_addRoleToParentAsync_upsertsParent(rs, as, roleName, parentName) ==
    IF roleName \notin DOMAIN rs THEN Result(rs, as, "NotFound")
    ELSE
    LET role == RoleDoc(rs, roleName) IN
    IF parentName \in _getInheritedRoleNamesAsync(rs, role)
    THEN Result(rs, as, "CycleDetected")
    ELSE
    LET count == IF parentName \in DOMAIN rs /\ Has(rs[parentName], role._id)
                 THEN 0 ELSE 1
        rs2 == IF count = 0 THEN rs
               ELSE [x \in DOMAIN rs \cup {parentName} |->
                       IF x # parentName THEN rs[x]
                       ELSE IF x \in DOMAIN rs THEN Push(rs[x], role._id)
                       ELSE ArrOf({role._id})]
        each == WithInherited(role._id, _getInheritedRoleNamesAsync(rs2, role))
    IN  IF count = 0 THEN Result(rs, as, "ok")
        ELSE Result(rs2,
                    UpdateMulti(as, [d \in as |->
                        IF Has(d.inheritedRoles, parentName)
                        THEN [d EXCEPT !.inheritedRoles = Concat(@, each)]
                        ELSE d]),
                    "ok")

\* _addRoleToParentAsync(roleName, parentName)
_addRoleToParentAsync(rs, as, roleName, parentName) ==
    IF ~_checkRoleName(roleName) \/ ~_checkRoleName(parentName)
    THEN Result(rs, as, "InvalidName")
    ELSE
    IF roleName \notin DOMAIN rs THEN Result(rs, as, "NotFound")
    ELSE
    LET role == RoleDoc(rs, roleName) IN
    IF parentName \in _getInheritedRoleNamesAsync(rs, role)
    THEN Result(rs, as, "CycleDetected")
    ELSE
    \* {_id: parentName, 'children._id': {$ne: role._id}}
    LET count == IF parentName \in DOMAIN rs /\ ~Has(rs[parentName], role._id)
                 THEN 1 ELSE 0
        rs2 == IF count = 1 THEN [rs EXCEPT ![parentName] = Push(@, role._id)]
               ELSE rs
        each == WithInherited(role._id, _getInheritedRoleNamesAsync(rs2, role))
    IN  IF count = 0 THEN Result(rs, as, "ok")
        ELSE Result(rs2,
                    UpdateMulti(as, [d \in as |->
                        IF Has(d.inheritedRoles, parentName)
                        THEN [d EXCEPT !.inheritedRoles = Concat(@, each)]
                        ELSE d]),
                    "ok")

\* the loop of _removeRoleFromParentAsync over the fetched roles
RECURSIVE RemoveParentLoop(_, _, _, _)
RemoveParentLoop(rs, as, fetched, roleId) ==
    IF fetched = <<>> THEN as
    ELSE LET r == Head(fetched)
             inheritedRoles == _getInheritedRoleNamesAsync(rs, RoleDoc(rs, r))
         IN  RemoveParentLoop(rs,
                 UpdateMulti(as, [d \in as |->
                     IF d.role = r /\ Has(d.inheritedRoles, roleId)
                     THEN [d EXCEPT !.inheritedRoles = WithInherited(r, inheritedRoles)]
                     ELSE d]),
                 Tail(fetched), roleId)

\* _removeRoleFromParentAsync(roleName, parentName)
_removeRoleFromParentAsync(rs, as, roleName, parentName, order) ==
    IF ~_checkRoleName(roleName) \/ ~_checkRoleName(parentName)
    THEN Result(rs, as, "InvalidName")
    ELSE
    IF roleName \notin DOMAIN rs THEN Result(rs, as, "NotFound")
    ELSE
    \* updateAsync({_id: parentName}, {$pull: ...}): the selector names the
    \* parent only, so count is 1 for every parent that exists, whether or
    \* not the $pull finds the child in its children
    LET count == IF parentName \in DOMAIN rs THEN 1 ELSE 0
        rs2 == IF count = 1 THEN [rs EXCEPT ![parentName] = Pull(@, roleName)]
               ELSE rs
        rolesToFix == _getParentRoleNamesAsync(rs2, parentName) \cup {parentName}
    IN  IF count = 0 THEN Result(rs, as, "ok")
        ELSE Result(rs2,
                    RemoveParentLoop(rs2, as, Fetch(order, rolesToFix \cap DOMAIN rs2),
                                     roleName),
                    "ok")

\* one pass of the for loop of deleteRoleAsync over the fetched roles
RECURSIVE DeleteRoleFor(_, _, _, _)
DeleteRoleFor(rs, as, fetched, roleName) ==
    IF fetched = <<>> THEN [roles |-> rs, roleAssignment |-> as]
    ELSE LET r == Head(fetched)
             rs2 == [rs EXCEPT ![r] = Pull(@, roleName)]
             inheritedRoles == _getInheritedRoleNamesAsync(rs2, RoleDoc(rs2, r))
         IN  DeleteRoleFor(rs2,
                 UpdateMulti(as, [d \in as |->
                     IF d.role = r
                     THEN [d EXCEPT !.inheritedRoles = WithInherited(r, inheritedRoles)]
                     ELSE d]),
                 Tail(fetched), roleName)

\* do { ... } while (roles.length > 0)
\* lengths: roles.length in each pass so far; done is FALSE when the loop
\* has not ended after MaxPasses passes
RECURSIVE DeleteRoleLoop(_, _, _, _, _)
DeleteRoleLoop(rs, as, roleName, order, lengths) ==
    LET parents == _getParentRoleNames(rs, roleName)
        after == DeleteRoleFor(rs, as, Fetch(order, parents \cap DOMAIN rs), roleName)
        lengths2 == Append(lengths, Cardinality(parents))
    IN  IF parents = {}
        THEN [roles |-> after.roles, roleAssignment |-> after.roleAssignment,
              lengths |-> lengths2, done |-> TRUE]
        ELSE IF Len(lengths2) = MaxPasses
        THEN [roles |-> after.roles, roleAssignment |-> after.roleAssignment,
              lengths |-> lengths2, done |-> FALSE]
        ELSE DeleteRoleLoop(after.roles, after.roleAssignment, roleName, order,
                            lengths2)

\* deleteRoleAsync without its first step, the removal of the role's own
\* assignments
deleteRoleAsync_keepsAssignments(rs, as, roleName, order) ==
    LET after == DeleteRoleLoop(rs, as, roleName, order, <<>>)
    IN  Result([x \in DOMAIN after.roles \ {roleName} |-> after.roles[x]],
               after.roleAssignment, "ok")

\* deleteRoleAsync(roleName)
deleteRoleAsync(rs, as, roleName, order) ==
    IF ~_checkRoleName(roleName) THEN Result(rs, as, "InvalidName")
    ELSE
    LET as1 == Remove(as, {d \in as : d.role = roleName})
        after == DeleteRoleLoop(rs, as1, roleName, order, <<>>)
    IN  IF ~after.done THEN Result(after.roles, after.roleAssignment, "loops")
        ELSE Result([x \in DOMAIN after.roles \ {roleName} |-> after.roles[x]],
                    after.roleAssignment, "ok")

\* the documents of a collection that the selector {field: old} matches
Matching(coll, field, old) ==
    IF field = "children._id" THEN {x \in DOMAIN coll : Has(coll[x], old)}
    ELSE IF field = "inheritedRoles._id"
    THEN {d \in coll : Has(d.inheritedRoles, old)}
    ELSE IF field = "role._id" THEN {d \in coll : d.role = old}
    ELSE {d \in coll : d.scope = old}

\* the number updateAsync({field: old}, ..., {multi: true}) returns
Matched(coll, field, old) ==
    IF field = "children._id" THEN Cardinality(Matching(coll, field, old))
    ELSE Count(Matching(coll, field, old))

\* one updateAsync({field: old}, {$set: {field: new}}, {multi: true});
\* for the array fields the $set is positional
UpdateField(coll, field, old, new) ==
    IF field = "children._id"
    THEN [x \in DOMAIN coll |-> IF Has(coll[x], old)
                                THEN SetFirst(coll[x], old, new)
                                ELSE coll[x]]
    ELSE UpdateMulti(coll, [d \in coll |->
             IF d \notin Matching(coll, field, old) THEN d
             ELSE IF field = "inheritedRoles._id"
             THEN [d EXCEPT !.inheritedRoles = SetFirst(@, old, new)]
             ELSE IF field = "role._id" THEN [d EXCEPT !.role = new]
             ELSE [d EXCEPT !.scope = new]])

\* do { count = updateAsync(sel, mod, {multi: true}) } while (count > 0)
\* counts: the count of each pass so far; done is FALSE when the loop has
\* not ended after MaxPasses passes
RECURSIVE UntilNoMatch(_, _, _, _, _)
UntilNoMatch(coll, field, old, new, counts) ==
    LET count == Matched(coll, field, old)
        counts2 == Append(counts, count)
        coll2 == UpdateField(coll, field, old, new)
    IN  IF count = 0 THEN [val |-> coll, counts |-> counts2, done |-> TRUE]
        ELSE IF Len(counts2) = MaxPasses
        THEN [val |-> coll2, counts |-> counts2, done |-> FALSE]
        ELSE UntilNoMatch(coll2, field, old, new, counts2)
UntilNoMatchA(as, old, new) ==
    UntilNoMatch(as, "inheritedRoles._id", old, new, <<>>).val
UntilNoMatchR(rs, old, new) ==
    UntilNoMatch(rs, "children._id", old, new, <<>>).val

\* renameRoleAsync without its second loop, the rewrite of inheritedRoles
renameRoleAsync_skipsInherited(rs, as, oldName, newName) ==
    IF oldName = newName THEN Result(rs, as, "ok")
    ELSE IF oldName \notin DOMAIN rs THEN Result(rs, as, "NotFound")
    ELSE IF newName \in DOMAIN rs THEN Result(rs, as, "DuplicateKey")
    ELSE
    LET rs1 == [x \in DOMAIN rs \cup {newName} |->
                  IF x = newName THEN rs[oldName] ELSE rs[x]]
        as1 == UpdateMulti(as, [d \in as |->
                   IF d.role = oldName
                   THEN [d EXCEPT !.role = newName]
                   ELSE d])
        rs2 == UntilNoMatchR(rs1, oldName, newName)
    IN  Result([x \in DOMAIN rs2 \ {oldName} |-> rs2[x]], as1, "ok")

\* renameRoleAsync without its third loop, the rewrite of children
renameRoleAsync_skipsChildren(rs, as, oldName, newName) ==
    IF oldName = newName THEN Result(rs, as, "ok")
    ELSE IF oldName \notin DOMAIN rs THEN Result(rs, as, "NotFound")
    ELSE IF newName \in DOMAIN rs THEN Result(rs, as, "DuplicateKey")
    ELSE
    LET rs1 == [x \in DOMAIN rs \cup {newName} |->
                  IF x = newName THEN rs[oldName] ELSE rs[x]]
        as1 == UpdateMulti(as, [d \in as |->
                   IF d.role = oldName
                   THEN [d EXCEPT !.role = newName]
                   ELSE d])
        as2 == UntilNoMatchA(as1, oldName, newName)
    IN  Result([x \in DOMAIN rs1 \ {oldName} |-> rs1[x]], as2, "ok")

\* renameRoleAsync with an insert that replaces an existing newName
renameRoleAsync_replaces(rs, as, oldName, newName) ==
    IF oldName = newName THEN Result(rs, as, "ok")
    ELSE IF oldName \notin DOMAIN rs THEN Result(rs, as, "NotFound")
    ELSE
    LET rs1 == [x \in DOMAIN rs \cup {newName} |->
                  IF x = newName THEN rs[oldName] ELSE rs[x]]
        as1 == UpdateMulti(as, [d \in as |->
                   IF d.role = oldName
                   THEN [d EXCEPT !.role = newName]
                   ELSE d])
        as2 == UntilNoMatchA(as1, oldName, newName)
        rs2 == UntilNoMatchR(rs1, oldName, newName)
    IN  Result([x \in DOMAIN rs2 \ {oldName} |-> rs2[x]], as2, "ok")

\* the three do-while loops of renameRoleAsync, after the insert
renameRoleLoops(rs, as, oldName, newName) ==
    LET rs1 == [x \in DOMAIN rs \cup {newName} |->
                  IF x = newName THEN rs[oldName] ELSE rs[x]]
        loop1 == UntilNoMatch(as, "role._id", oldName, newName, <<>>)
        loop2 == UntilNoMatch(loop1.val, "inheritedRoles._id", oldName, newName,
                              <<>>)
        loop3 == UntilNoMatch(rs1, "children._id", oldName, newName, <<>>)
    IN  <<loop1, loop2, loop3>>

\* renameRoleAsync(oldName, newName)
renameRoleAsync(rs, as, oldName, newName) ==
    IF ~_checkRoleName(oldName) \/ ~_checkRoleName(newName)
    THEN Result(rs, as, "InvalidName")
    ELSE
    IF oldName = newName THEN Result(rs, as, "ok")
    ELSE IF oldName \notin DOMAIN rs THEN Result(rs, as, "NotFound")
    ELSE IF newName \in DOMAIN rs THEN Result(rs, as, "DuplicateKey")
    ELSE
    LET loops == renameRoleLoops(rs, as, oldName, newName)
        as2 == loops[2].val
        rs2 == loops[3].val
    IN  IF \E i \in 1..3 : ~loops[i].done THEN Result(rs2, as2, "loops")
        ELSE Result([x \in DOMAIN rs2 \ {oldName} |-> rs2[x]], as2, "ok")

\* ------------------------------------------------------------------
\* Assignment operations

\* {'user._id': userId, 'role._id': roleName, scope: options.scope}
IsTriple(d, userId, roleName, scope) ==
    d.user = userId /\ d.role = roleName /\ d.scope = scope

NewDoc(userId, roleName, scope, inheritedRoles) ==
    [user |-> userId, role |-> roleName, scope |-> scope,
     inheritedRoles |-> inheritedRoles, n |-> 1]

\* _addUserToRoleAsync without the lookup of an existing assignment
_addUserToRoleAsync_alwaysInserts(rs, as, userId, roleName, scope, ifExists) ==
    IF roleName \notin DOMAIN rs
    THEN Result(rs, as, IF ifExists THEN "ok" ELSE "NotFound")
    ELSE Result(rs,
                Insert(as, NewDoc(userId, roleName, scope,
                           WithInherited(roleName,
                               _getInheritedRoleNamesAsync(rs, RoleDoc(rs, roleName))))),
                "ok")

\* _addUserToRoleAsync going on to the insert for a missing role when
\* options.ifExists is set
_addUserToRoleAsync_insertsIfExists(rs, as, userId, roleName, scope, ifExists) ==
    IF roleName \notin DOMAIN rs /\ ~ifExists
    THEN Result(rs, as, "NotFound")
    ELSE
    LET existingAssignment ==
            Count({d \in as : IsTriple(d, userId, roleName, scope)}) > 0
        inheritedRoles ==
            IF roleName \in DOMAIN rs
            THEN _getInheritedRoleNamesAsync(rs, RoleDoc(rs, roleName))
            ELSE {}
    IN  IF existingAssignment
        THEN Result(rs, as, "ok")
        ELSE Result(rs,
                    Insert(as, NewDoc(userId, roleName, scope,
                               WithInherited(roleName, inheritedRoles))),
                    "ok")

\* _addUserToRoleAsync(userId, roleName, options)
_addUserToRoleAsync(rs, as, userId, roleName, scope, ifExists) ==
    IF ~_checkRoleName(roleName) \/ ~_checkScopeName(scope)
    THEN Result(rs, as, "InvalidName")
    ELSE
    IF roleName \notin DOMAIN rs
    THEN Result(rs, as, IF ifExists THEN "ok" ELSE "NotFound")
    ELSE
    LET role == RoleDoc(rs, roleName)
        existingAssignment ==
            Count({d \in as : IsTriple(d, userId, roleName, scope)}) > 0
    IN  IF existingAssignment
        THEN Result(rs, as, "ok")    \* $set of the three fields it already has
        ELSE Result(rs,
                    Insert(as, NewDoc(userId, roleName, scope,
                               WithInherited(roleName,
                                   _getInheritedRoleNamesAsync(rs, role)))),
                    "ok")

\* descendantsOf(role): the transitive closure of children from role
descendantsOf(rs, roleName) == InheritedLoop(rs, {RoleDoc(rs, roleName)}, {})

\* Roles._addUserToRole, the synchronous twin in roles_common.js
_addUserToRole(rs, as, userId, roleName, scope, ifExists) ==
    IF ~_checkRoleName(roleName) \/ ~_checkScopeName(scope)
    THEN Result(rs, as, "InvalidName")
    ELSE
    IF roleName \notin DOMAIN rs
    THEN Result(rs, as, IF ifExists THEN "ok" ELSE "NotFound")
    ELSE
    IF Count({d \in as : IsTriple(d, userId, roleName, scope)}) > 0
    THEN Result(rs, as, "ok")
    ELSE Result(rs,
                Insert(as, NewDoc(userId, roleName, scope,
                           WithInherited(roleName, descendantsOf(rs, roleName)))),
                "ok")

\* for (const role of roles) await Roles._addUserToRole(id, role, options)
RECURSIVE SetUserRolesLoop(_, _, _, _, _, _)
SetUserRolesLoop(rs, as, id, rolesList, scope, ifExists) ==
    IF rolesList = <<>> THEN Result(rs, as, "ok")
    ELSE LET one == _addUserToRole(rs, as, id, Head(rolesList), scope, ifExists)
         IN  IF one.err # "ok" THEN one
             ELSE SetUserRolesLoop(rs, one.roleAssignment, id, Tail(rolesList),
                                   scope, ifExists)

\* setUserRolesAsync without the removeAsync that clears the user's roles
setUserRolesAsync_addsOnly(rs, as, id, rolesList, scope, anyScope, ifExists) ==
    SetUserRolesLoop(rs, as, id, rolesList, scope, ifExists)

\* setUserRolesAsync(users, roles, options), for one user
setUserRolesAsync(rs, as, id, rolesList, scope, anyScope, ifExists) ==
    IF ~_checkScopeName(scope) THEN Result(rs, as, "InvalidName")
    ELSE
    LET cleared == Remove(as, {d \in as : d.user = id /\ (anyScope \/ d.scope = scope)})
    IN  SetUserRolesLoop(rs, cleared, id, rolesList, scope, ifExists)

\* _removeUserFromRoleAsync removing one matching document, not all
_removeUserFromRoleAsync_removesOne(rs, as, userId, roleName, scope, anyScope) ==
    LET matching == {d \in as : d.user = userId /\ d.role = roleName
                                /\ (anyScope \/ d.scope = scope)}
    IN  IF matching = {} THEN Result(rs, as, "ok")
        ELSE LET d == CHOOSE d \in matching : TRUE
             IN  Result(rs,
                        (as \ {d}) \cup (IF d.n > 1 THEN {[d EXCEPT !.n = @ - 1]}
                                         ELSE {}),
                        "ok")

\* _removeUserFromRoleAsync never adding scope to its selector
_removeUserFromRoleAsync_ignoresScope(rs, as, userId, roleName, scope, anyScope) ==
    Result(rs,
           Remove(as, {d \in as : d.user = userId /\ d.role = roleName}),
           "ok")

\* _removeUserFromRoleAsync(userId, roleName, options)
_removeUserFromRoleAsync(rs, as, userId, roleName, scope, anyScope) ==
    IF ~_checkRoleName(roleName) \/ ~_checkScopeName(scope)
    THEN Result(rs, as, "InvalidName")
    ELSE
    Result(rs,
           Remove(as, {d \in as : /\ d.user = userId
                                   /\ d.role = roleName
                                   /\ (anyScope \/ d.scope = scope)}),
           "ok")

\* renameScopeAsync with an update that is not {multi: true} and is issued
\* once
renameScopeAsync_oneDocument(rs, as, oldName, newName) ==
    IF ~_checkScopeName(oldName) \/ ~_checkScopeName(newName)
    THEN Result(rs, as, "InvalidName")
    ELSE
    IF oldName = newName \/ {d \in as : d.scope = oldName} = {}
    THEN Result(rs, as, "ok")
    ELSE LET one == CHOOSE d \in as : d.scope = oldName
             left == IF one.n = 1 THEN as \ {one}
                     ELSE (as \ {one}) \cup {[one EXCEPT !.n = @ - 1]}
         IN  Result(rs, Insert(left, [one EXCEPT !.scope = newName]), "ok")

\* renameScopeAsync without its return when the two names are equal
renameScopeAsync_sameName(rs, as, oldName, newName) ==
    IF ~_checkScopeName(oldName) \/ ~_checkScopeName(newName)
    THEN Result(rs, as, "InvalidName")
    ELSE LET loop == UntilNoMatch(as, "scope", oldName, newName, <<>>)
         IN  Result(rs, loop.val, IF loop.done THEN "ok" ELSE "loops")

\* renameScopeAsync(oldName, newName)
renameScopeAsync(rs, as, oldName, newName) ==
    IF ~_checkScopeName(oldName) \/ ~_checkScopeName(newName)
    THEN Result(rs, as, "InvalidName")
    ELSE
    IF oldName = newName THEN Result(rs, as, "ok")
    ELSE LET loop == UntilNoMatch(as, "scope", oldName, newName, <<>>)
         IN  Result(rs, loop.val, IF loop.done THEN "ok" ELSE "loops")

\* removeScopeAsync(name)
removeScopeAsync(rs, as, name) ==
    IF ~_checkScopeName(name) THEN Result(rs, as, "InvalidName")
    ELSE Result(rs, Remove(as, {d \in as : d.scope = name}), "ok")

\* ------------------------------------------------------------------
\* Query operations

\* userIsInRoleAsync with selector.scope = options.scope, without null
userIsInRoleAsync_exactScope(as, id, rolesSet, scope, anyScope) ==
    \E roleName \in rolesSet :
        Count({d \in as : /\ d.user = id
                           /\ (anyScope \/ d.scope = scope)
                           /\ Has(d.inheritedRoles, roleName)}) > 0

\* userIsInRoleAsync(user, roles, options)
userIsInRoleAsync(as, id, rolesSet, scope, anyScope) ==
    \E roleName \in rolesSet :
        Count({d \in as : /\ d.user = id
                           /\ (anyScope \/ d.scope \in {scope, GLOBAL_GROUP})
                           /\ Has(d.inheritedRoles, roleName)}) > 0

\* roles.reduce(...) of getRolesForUserAsync over the fetched documents:
\* a document projected on inheritedRoles gives its names, one projected on
\* role (onlyAssigned) its role; rev is the array collected, with repeats
RECURSIVE ReduceRoles(_, _)
ReduceRoles(fetched, onlyAssigned) ==
    IF fetched = {} THEN EmptyArr
    ELSE LET current == CHOOSE d \in fetched : TRUE
             rev == ReduceRoles(fetched \ {current}, onlyAssigned)
         IN  IF ~onlyAssigned
             THEN [x \in RoleNames |-> rev[x] + current.n * current.inheritedRoles[x]]
             ELSE [rev EXCEPT ![current.role] = @ + current.n]

\* getRolesForUserAsync with selector.scope = {$in: [options.scope]} only
getRolesForUserAsync_neverGlobal(as, id, scope, anyScope, onlyScoped, onlyAssigned) ==
    LET fetched == {d \in as : d.user = id /\ (anyScope \/ d.scope = scope)}
    IN  Ids(ReduceRoles(fetched, onlyAssigned))

\* getRolesForUserAsync(user, options), fullObjects not set: [...new Set(rev)]
getRolesForUserAsync(as, id, scope, anyScope, onlyScoped, onlyAssigned) ==
    LET in == IF onlyScoped THEN {scope} ELSE {scope, GLOBAL_GROUP}
        fetched == {d \in as : d.user = id /\ (anyScope \/ d.scope \in in)}
    IN  Ids(ReduceRoles(fetched, onlyAssigned))

\* _getUsersInRoleCursor selecting on 'role._id' in place of
\* 'inheritedRoles._id'
_getUsersInRoleCursor_assignedOnly(as, rolesSet, scope, anyScope, onlyScoped) ==
    LET in == IF onlyScoped THEN {scope} ELSE {scope, GLOBAL_GROUP}
    IN  {d \in as : /\ d.role \in rolesSet
                     /\ (anyScope \/ d.scope \in in)}

\* _getUsersInRoleCursor(roles, options, filter): the documents of the cursor
_getUsersInRoleCursor(as, rolesSet, scope, anyScope, onlyScoped) ==
    LET in == IF onlyScoped THEN {scope} ELSE {scope, GLOBAL_GROUP}
    IN  {d \in as : /\ \E r \in rolesSet : Has(d.inheritedRoles, r)
                     /\ (anyScope \/ d.scope \in in)}

\* getUsersInRoleAsync(roles, options): ids, the selector of the users cursor
getUsersInRoleAsync(as, rolesSet, scope, anyScope) ==
    {a.user : a \in _getUsersInRoleCursor(as, rolesSet, scope, anyScope, FALSE)}

\* getScopesForUserAsync without scope: {$ne: null} in its selector
getScopesForUserAsync_withGlobal(as, id, given, rolesSet) ==
    LET fetched == {d \in as : /\ d.user = id
                               /\ given => \E r \in rolesSet :
                                               Has(d.inheritedRoles, r)}
    IN  {obi.scope : obi \in fetched}

\* getScopesForUserAsync(user, roles); given: the roles argument is passed
getScopesForUserAsync(as, id, given, rolesSet) ==
    LET fetched == {d \in as : /\ d.user = id
                               /\ d.scope # GLOBAL_GROUP
                               /\ given => \E r \in rolesSet :
                                               Has(d.inheritedRoles, r)}
    IN  {obi.scope : obi \in fetched}

\* role.children.map((r) => r._id): the names of the array, order giving
\* the positions the names have in it
RECURSIVE ChildrenIds(_, _)
ChildrenIds(children, order) ==
    IF order = <<>> THEN <<>>
    ELSE [i \in 1..children[Head(order)] |-> Head(order)]
            \o ChildrenIds(children, Tail(order))

\* the while loop of isParentOfAsync: rolesToCheck is a stack, and no role
\* is remembered as visited; "loops" when the loop is still running after
\* MaxPops iterations
RECURSIVE isParentOfLoop(_, _, _, _, _)
isParentOfLoop(rs, rolesToCheck, childRoleName, order, pops) ==
    IF Len(rolesToCheck) = 0 THEN "false"
    ELSE IF pops = 0 THEN "loops"
    ELSE LET roleName == rolesToCheck[Len(rolesToCheck)]
             popped == SubSeq(rolesToCheck, 1, Len(rolesToCheck) - 1)
         IN  IF roleName = childRoleName THEN "true"
             ELSE IF roleName \notin DOMAIN rs     \* if (!role) continue
             THEN isParentOfLoop(rs, popped, childRoleName, order, pops - 1)
             ELSE isParentOfLoop(rs, popped \o ChildrenIds(rs[roleName], order),
                                 childRoleName, order, pops - 1)

\* isParentOfAsync(parentRoleName, childRoleName)
isParentOfAsync(rs, parentRoleName, childRoleName, order) ==
    IF parentRoleName = childRoleName THEN "true"
    ELSE isParentOfLoop(rs, <<parentRoleName>>, childRoleName, order, MaxPops)

\* ------------------------------------------------------------------
\* The calls, one at a time: a call runs to completion (last records it
\* and how it ended), then its caller resumes

NoCall == [op |-> "none", roleName |-> "-", other |-> "-", user |-> "-",
           scope |-> "-", list |-> <<>>, flag |-> FALSE, flag2 |-> FALSE,
           err |-> "ok"]

\* the calls that run one store call at a time
Procs == {"p1", "p2"}
NoRole == [_id |-> "-", children |-> EmptyArr]
IdleProc == [pc |-> "idle", op |-> "none", roleName |-> "-", other |-> "-",
             user |-> "-", scope |-> "-", role |-> NoRole, count |-> 0,
             insertedId |-> FALSE, todo |-> <<>>, err |-> "ok"]

\* the users of the two-factor methods, the secrets node-2fa may generate
\* and the codes a caller may send
Usernames == {"alice", "bob"}
Secrets == {"secret1", "secret2"}
Codes == {"code1", "code2", "000000"}
\* a user document without the twoFactorAuthentication field; "-" stands
\* for a field the document has not
NoTwoFactor == [secret |-> "-", type |-> "-"]

Init ==
    /\ roles = [x \in {} |-> EmptyArr]
    /\ roleAssignment = {}
    /\ last = NoCall
    /\ procs = [p \in Procs |-> IdleProc]
    /\ users = [u \in Usernames |-> NoTwoFactor]

Bounded(U, res) ==
    /\ SumN(res.roleAssignment) <= U.maxDocs
    /\ \A d \in res.roleAssignment : Fits(d.inheritedRoles)
    /\ \A x \in DOMAIN res.roles : Fits(res.roles[x])

Apply(U, res, call) ==
    /\ last = NoCall
    /\ Bounded(U, res)
    /\ roles' = res.roles
    /\ roleAssignment' = res.roleAssignment
    /\ last' = [call EXCEPT !.err = res.err]
    /\ UNCHANGED <<procs, users>>

\* the orders in which a find can return the roles named in S
OrdersOf(S) == {s \in [1..Cardinality(S) -> S] :
                   \A i, j \in 1..Cardinality(S) : i # j => s[i] # s[j]}

\* the arguments the calls are made with
\* (pairs: the <<role, parent>> arguments of addParent and removeParent)
Universe(R, U, S, maxDocs) ==
    [roles |-> R, users |-> U, scopes |-> S, maxDocs |-> maxDocs,
     pairs |-> R \X R]

CreateRole(U) ==
    \E roleName \in U.roles, unlessExists \in BOOLEAN :
        Apply(U, createRoleAsync(roles, roleAssignment, roleName, unlessExists),
              [NoCall EXCEPT !.op = "createRole", !.roleName = roleName,
                             !.flag = unlessExists])

DeleteRole(U) ==
    \E roleName \in U.roles :
        \E order \in OrdersOf(_getParentRoleNames(roles, roleName)) :
            Apply(U, deleteRoleAsync(roles, roleAssignment, roleName, order),
                  [NoCall EXCEPT !.op = "deleteRole", !.roleName = roleName])

RenameRole(U) ==
    \E oldName \in U.roles, newName \in U.roles :
        Apply(U, renameRoleAsync(roles, roleAssignment, oldName, newName),
              [NoCall EXCEPT !.op = "renameRole", !.roleName = oldName,
                             !.other = newName])

AddRoleToParent(U) ==
    \E roleName \in U.roles, parentName \in U.roles :
        /\ <<roleName, parentName>> \in U.pairs
        /\ Apply(U, _addRoleToParentAsync(roles, roleAssignment, roleName,
                                        parentName),
                 [NoCall EXCEPT !.op = "addRoleToParent", !.roleName = roleName,
                                !.other = parentName])

RemoveRoleFromParent(U) ==
    \E roleName \in U.roles, parentName \in U.roles :
        \E order \in OrdersOf(IF parentName \in DOMAIN roles
                               THEN _getParentRoleNamesAsync(roles, parentName)
                                       \cup {parentName}
                               ELSE {}) :
            /\ <<roleName, parentName>> \in U.pairs
            /\ Apply(U, _removeRoleFromParentAsync(roles, roleAssignment,
                                                 roleName, parentName, order),
                     [NoCall EXCEPT !.op = "removeRoleFromParent",
                                    !.roleName = roleName, !.other = parentName])

AddUserToRole(U) ==
    \E userId \in U.users, roleName \in U.roles, scope \in U.scopes,
       ifExists \in BOOLEAN :
        Apply(U, _addUserToRoleAsync(roles, roleAssignment, userId, roleName,
                                  scope, ifExists),
              [NoCall EXCEPT !.op = "addUserToRole", !.user = userId,
                             !.roleName = roleName, !.scope = scope,
                             !.flag = ifExists])

\* the role lists setUserRoles is called with: at most two roles
RolesLists(R) == {<<>>} \cup {<<r>> : r \in R}
                    \cup {<<r1, r2>> : r1 \in R, r2 \in R}

SetUserRoles(U) ==
    \E id \in U.users, rolesList \in RolesLists(U.roles), scope \in U.scopes,
       anyScope \in BOOLEAN :
        Apply(U, setUserRolesAsync(roles, roleAssignment, id, rolesList, scope,
                                anyScope, FALSE),
              [NoCall EXCEPT !.op = "setUserRoles", !.user = id,
                             !.list = rolesList, !.scope = scope,
                             !.flag2 = anyScope])

RemoveUserFromRole(U) ==
    \E userId \in U.users, roleName \in U.roles, scope \in U.scopes,
       anyScope \in BOOLEAN :
        Apply(U, _removeUserFromRoleAsync(roles, roleAssignment, userId, roleName,
                                       scope, anyScope),
              [NoCall EXCEPT !.op = "removeUserFromRole", !.user = userId,
                             !.roleName = roleName, !.scope = scope,
                             !.flag2 = anyScope])

RenameScope(U) ==
    \E oldName \in U.scopes, newName \in U.scopes :
        Apply(U, renameScopeAsync(roles, roleAssignment, oldName, newName),
              [NoCall EXCEPT !.op = "renameScope", !.scope = oldName,
                             !.other = newName])

RemoveScope(U) ==
    \E name \in U.scopes :
        Apply(U, removeScopeAsync(roles, roleAssignment, name),
              [NoCall EXCEPT !.op = "removeScope", !.scope = name])

\* the caller takes the result; the next call can start
Return ==
    /\ last # NoCall
    /\ last' = NoCall
    /\ UNCHANGED <<roles, roleAssignment, procs, users>>

Calls(U) ==
    \/ CreateRole(U)
    \/ DeleteRole(U)
    \/ RenameRole(U)
    \/ AddRoleToParent(U)
    \/ RemoveRoleFromParent(U)
    \/ AddUserToRole(U)
    \/ SetUserRoles(U)
    \/ RemoveUserFromRole(U)
    \/ RenameScope(U)
    \/ RemoveScope(U)

\* Spec: the whole role graph over three names, one user, global scope
GraphUniverse ==
    Universe({"admin", "editor", "viewer"}, {"u1"}, {GLOBAL_GROUP}, MaxDocs)
Next == Calls(GraphUniverse) \/ Return
Spec == Init /\ [][Next]_vars

\* SpecScoped: two roles, two users, global and named scopes
ScopedUniverse == Universe({"admin", "editor"}, Users, Scopes, MaxDocsScoped)
NextScoped == Calls(ScopedUniverse) \/ Return
SpecScoped == Init /\ [][NextScoped]_vars

\* SpecDiamond: four roles, the edges of the diamond admin -> editor ->
\* guest, admin -> viewer -> guest the only ones asked for, no renaming
DiamondPairs == {<<"editor", "admin">>, <<"viewer", "admin">>,
                 <<"guest", "editor">>, <<"guest", "viewer">>}
DiamondUniverse ==
    [Universe(RoleNames, {"u1"}, {GLOBAL_GROUP}, MaxDocs)
        EXCEPT !.pairs = DiamondPairs]
NextDiamond ==
    \/ CreateRole(DiamondUniverse)
    \/ DeleteRole(DiamondUniverse)
    \/ AddRoleToParent(DiamondUniverse)
    \/ RemoveRoleFromParent(DiamondUniverse)
    \/ AddUserToRole(DiamondUniverse)
    \/ RemoveUserFromRole(DiamondUniverse)
    \/ Return
SpecDiamond == Init /\ [][NextDiamond]_vars

\* SpecNames: calls made with names that are empty or start with a blank
\* as well as with valid ones
NamesUniverse ==
    Universe({"admin", "editor", " admin", ""}, {"u1"},
             {GLOBAL_GROUP, "s1", " s1", ""}, MaxDocsScoped)
NextNames == Calls(NamesUniverse) \/ Return
SpecNames == Init /\ [][NextNames]_vars

\* SpecScopes: one role, two users, the global scope and two named scopes
ScopesUniverse ==
    Universe({"admin"}, Users, {GLOBAL_GROUP, "s1", "s2"}, MaxDocsScoped)
NextScopes == Calls(ScopesUniverse) \/ Return
SpecScopes == Init /\ [][NextScopes]_vars

\* ------------------------------------------------------------------
\* Calls in progress together.  Every await of a store call is a point
\* where the other call may run; one step is one store call with the
\* synchronous code that follows it up to the next store call.
StepResult(rs, as, c) == [roles |-> rs, roleAssignment |-> as, proc |-> c]
Done(c, err) == [c EXCEPT !.pc = "done", !.err = err]
InFlight(c) == c.pc \notin {"idle", "done"}

\* the same update without 'children._id': {$ne: roleId} in its selector
pushChild_always(rs, roleId, parentName) ==
    IF parentName \in DOMAIN rs
    THEN [roles |-> [rs EXCEPT ![parentName] = Push(@, roleId)], count |-> 1]
    ELSE [roles |-> rs, count |-> 0]

\* updateAsync({_id: parentName, 'children._id': {$ne: roleId}},
\*             {$push: {children: {_id: roleId}}}) and the count it returns
pushChild(rs, roleId, parentName) ==
    IF parentName \in DOMAIN rs /\ ~Has(rs[parentName], roleId)
    THEN [roles |-> [rs EXCEPT ![parentName] = Push(@, roleId)], count |-> 1]
    ELSE [roles |-> rs, count |-> 0]

\* _addRoleToParentAsync(roleName, parentName), one store call
_addRoleToParentAsyncStep(rs, as, c) ==
    IF c.pc = "findOne"
    THEN IF c.roleName \notin DOMAIN rs THEN StepResult(rs, as, Done(c, "NotFound"))
         ELSE LET role == RoleDoc(rs, c.roleName)
              IN  IF c.other \in _getInheritedRoleNamesAsync(rs, role)
                  THEN StepResult(rs, as, Done(c, "CycleDetected"))
                  ELSE StepResult(rs, as, [c EXCEPT !.role = role,
                                                    !.pc = "pushChild"])
    ELSE IF c.pc = "pushChild"
    THEN LET upd == pushChild(rs, c.role._id, c.other)
         IN  IF upd.count = 0 THEN StepResult(rs, as, Done(c, "ok"))
             ELSE StepResult(upd.roles, as,
                             [c EXCEPT !.count = 1, !.pc = "pushInherited"])
    ELSE LET each == WithInherited(c.role._id,
                                   _getInheritedRoleNamesAsync(rs, c.role))
         IN  StepResult(rs,
                        UpdateMulti(as, [d \in as |->
                            IF Has(d.inheritedRoles, c.other)
                            THEN [d EXCEPT !.inheritedRoles = Concat(@, each)]
                            ELSE d]),
                        Done(c, "ok"))

\* _removeRoleFromParentAsync(roleName, parentName), one store call; the
\* reads of Meteor.roles that prepare the for loop are one step
_removeRoleFromParentAsyncStep(rs, as, c, order) ==
    IF c.pc = "findOne"
    THEN IF c.roleName \notin DOMAIN rs THEN StepResult(rs, as, Done(c, "NotFound"))
         ELSE StepResult(rs, as, [c EXCEPT !.role = RoleDoc(rs, c.roleName),
                                           !.pc = "pullChild"])
    ELSE IF c.pc = "pullChild"
    THEN IF c.other \notin DOMAIN rs THEN StepResult(rs, as, Done(c, "ok"))
         ELSE StepResult([rs EXCEPT ![c.other] = Pull(@, c.role._id)], as,
                         [c EXCEPT !.count = 1, !.pc = "fetchRoles"])
    ELSE IF c.pc = "fetchRoles"
    THEN LET rolesToFix == _getParentRoleNamesAsync(rs, c.other) \cup {c.other}
             fetched == Fetch(order, rolesToFix \cap DOMAIN rs)
         IN  IF fetched = <<>> THEN StepResult(rs, as, Done(c, "ok"))
             ELSE StepResult(rs, as, [c EXCEPT !.todo = fetched, !.pc = "fix"])
    ELSE LET r == Head(c.todo)
             after == RemoveParentLoop(rs, as, <<r>>, c.role._id)
             rest == Tail(c.todo)
         IN  StepResult(rs, after,
                        IF rest = <<>> THEN Done([c EXCEPT !.todo = rest], "ok")
                        ELSE [c EXCEPT !.todo = rest])

\* _addUserToRoleAsync(userId, roleName, {scope}), one store call; the
\* document inserted has no inheritedRoles until the update that follows
_addUserToRoleAsyncStep(rs, as, c) ==
    LET fresh == NewDoc(c.user, c.roleName, c.scope, EmptyArr) IN
    IF c.pc = "findOne"
    THEN IF c.roleName \notin DOMAIN rs THEN StepResult(rs, as, Done(c, "NotFound"))
         ELSE StepResult(rs, as, [c EXCEPT !.role = RoleDoc(rs, c.roleName),
                                           !.pc = "findExisting"])
    ELSE IF c.pc = "findExisting"
    THEN IF Count({d \in as : IsTriple(d, c.user, c.roleName, c.scope)}) > 0
         THEN StepResult(rs, as, [c EXCEPT !.pc = "setExisting"])
         ELSE StepResult(rs, as, [c EXCEPT !.pc = "insert"])
    ELSE IF c.pc = "setExisting"
    THEN StepResult(rs, as, Done(c, "ok"))
    ELSE IF c.pc = "insert"
    THEN StepResult(rs, Insert(as, fresh),
                    [c EXCEPT !.insertedId = TRUE, !.pc = "setInherited"])
    ELSE LET mine == {d \in as : [d EXCEPT !.n = 0] = [fresh EXCEPT !.n = 0]}
             set == [fresh EXCEPT !.inheritedRoles =
                        WithInherited(c.roleName,
                                      _getInheritedRoleNamesAsync(rs, c.role))]
             left == {[d EXCEPT !.n = @ - 1] : d \in {e \in mine : e.n > 1}}
         IN  IF mine = {} THEN StepResult(rs, as, Done(c, "ok"))
             ELSE StepResult(rs, Insert((as \ mine) \cup left, set),
                             Done(c, "ok"))

\* _removeUserFromRoleAsync(userId, roleName, {scope}): its one store call,
\* count being the number of documents removeAsync reports
_removeUserFromRoleAsyncStep(rs, as, c) ==
    LET res == _removeUserFromRoleAsync(rs, as, c.user, c.roleName, c.scope, FALSE)
    IN  StepResult(res.roles, res.roleAssignment,
                   [Done(c, res.err) EXCEPT
                       !.count = SumN(as) - SumN(res.roleAssignment)])

ProcStep(rs, as, c, order) ==
    IF c.op = "addRoleToParent" THEN _addRoleToParentAsyncStep(rs, as, c)
    ELSE IF c.op = "removeRoleFromParent"
    THEN _removeRoleFromParentAsyncStep(rs, as, c, order)
    ELSE IF c.op = "addUserToRole" THEN _addUserToRoleAsyncStep(rs, as, c)
    ELSE _removeUserFromRoleAsyncStep(rs, as, c)

\* the functions run together here; _removeRoleFromParentAsync runs beside
\* calls that do not write Meteor.roles, which its reads taken as one
\* step suppose
Together ==
    {<<"addRoleToParent", "addRoleToParent">>,
     <<"addUserToRole", "addUserToRole">>,
     <<"addUserToRole", "addRoleToParent">>,
     <<"addRoleToParent", "addUserToRole">>,
     <<"addUserToRole", "removeRoleFromParent">>,
     <<"removeRoleFromParent", "addUserToRole">>,
     <<"addUserToRole", "removeUserFromRole">>,
     <<"removeUserFromRole", "addUserToRole">>}

\* a call begins: the names are checked before the first store call; of
\* two calls the one that begins first is p1
StartProc(p, c) ==
    /\ last = NoCall
    /\ procs[p].pc = "idle"
    /\ p = "p1" \/ procs["p1"].pc # "idle"
    /\ \A q \in Procs \ {p} :
          InFlight(procs[q]) => <<c.op, procs[q].op>> \in Together
    /\ procs' = [procs EXCEPT ![p] = c]
    /\ UNCHANGED <<roles, roleAssignment, last, users>>

StartAddRoleToParent(U) ==
    \E p \in Procs, roleName \in U.roles, parentName \in U.roles :
        StartProc(p, IF _checkRoleName(roleName) /\ _checkRoleName(parentName)
                     THEN [IdleProc EXCEPT !.op = "addRoleToParent",
                               !.roleName = roleName, !.other = parentName,
                               !.pc = "findOne"]
                     ELSE Done([IdleProc EXCEPT !.op = "addRoleToParent",
                               !.roleName = roleName, !.other = parentName],
                               "InvalidName"))

StartRemoveRoleFromParent(U) ==
    \E p \in Procs, roleName \in U.roles, parentName \in U.roles :
        StartProc(p, IF _checkRoleName(roleName) /\ _checkRoleName(parentName)
                     THEN [IdleProc EXCEPT !.op = "removeRoleFromParent",
                               !.roleName = roleName, !.other = parentName,
                               !.pc = "findOne"]
                     ELSE Done([IdleProc EXCEPT !.op = "removeRoleFromParent",
                               !.roleName = roleName, !.other = parentName],
                               "InvalidName"))

StartAddUserToRole(U) ==
    \E p \in Procs, userId \in U.users, roleName \in U.roles, scope \in U.scopes :
        StartProc(p, IF _checkRoleName(roleName) /\ _checkScopeName(scope)
                     THEN [IdleProc EXCEPT !.op = "addUserToRole",
                               !.user = userId, !.roleName = roleName,
                               !.scope = scope, !.pc = "findOne"]
                     ELSE Done([IdleProc EXCEPT !.op = "addUserToRole",
                               !.user = userId, !.roleName = roleName,
                               !.scope = scope], "InvalidName"))

StartRemoveUserFromRole(U) ==
    \E p \in Procs, userId \in U.users, roleName \in U.roles, scope \in U.scopes :
        StartProc(p, [IdleProc EXCEPT !.op = "removeUserFromRole",
                          !.user = userId, !.roleName = roleName,
                          !.scope = scope, !.pc = "removeAsync"])

\* the next store call of a call in progress
Step(U) ==
    \E p \in Procs, order \in OrdersOf(DOMAIN roles) :
        /\ InFlight(procs[p])
        /\ LET res == ProcStep(roles, roleAssignment, procs[p], order)
           IN  /\ Bounded(U, res)
               /\ roles' = res.roles
               /\ roleAssignment' = res.roleAssignment
               /\ procs' = [procs EXCEPT ![p] = res.proc]
        /\ UNCHANGED <<last, users>>

\* the caller takes the results once the calls begun have ended
ReturnProc ==
    /\ \A p \in Procs : ~InFlight(procs[p])
    /\ \E p \in Procs : procs[p].pc = "done"
    /\ procs' = [p \in Procs |-> IdleProc]
    /\ UNCHANGED <<roles, roleAssignment, last, users>>

\* SpecConcurrent: two roles, one user, global scope; roles are created
\* while no call is in progress
ConcurrentUniverse ==
    Universe({"admin", "editor"}, {"u1"}, {GLOBAL_GROUP}, MaxDocsConcurrent)
Quiet == \A p \in Procs : procs[p] = IdleProc
NextConcurrent ==
    \/ (Quiet /\ CreateRole(ConcurrentUniverse))
    \/ Return
    \/ StartAddRoleToParent(ConcurrentUniverse)
    \/ StartRemoveRoleFromParent(ConcurrentUniverse)
    \/ StartAddUserToRole(ConcurrentUniverse)
    \/ StartRemoveUserFromRole(ConcurrentUniverse)
    \/ Step(ConcurrentUniverse)
    \/ ReturnProc
SpecConcurrent == Init /\ [][NextConcurrent]_vars

\* ------------------------------------------------------------------
\* Two-factor authentication (accounts-2fa)

\* Accounts.generate2faToken(secret): the code node-2fa derives from secret
generate2faToken(secret) ==
    IF secret = "secret1" THEN "code1"
    ELSE IF secret = "secret2" THEN "code2"
    ELSE "-"
\* Accounts.isTokenValid(secret, token)
isTokenValid(secret, token) == secret \in Secrets /\ token = generate2faToken(secret)

\* Accounts.is2faEnabledForUser(selector), selector a username
is2faEnabledForUser(us, selector) ==
    LET twoFactorAuthentication ==
            IF selector \in DOMAIN us THEN us[selector] ELSE NoTwoFactor
    IN  /\ twoFactorAuthentication # NoTwoFactor
        /\ twoFactorAuthentication.secret # "-"
        /\ twoFactorAuthentication.type = "otp"

TwoFactorResult(us, err) == [users |-> us, err |-> err]

\* generate2faActivationQrCode(appName), called by user; secret is what
\* twofactor.generateSecret returns
generate2faActivationQrCode(us, user, secret) ==
    IF user \notin DOMAIN us THEN TwoFactorResult(us, "null")
    ELSE TwoFactorResult([us EXCEPT ![user] = [secret |-> secret, type |-> "-"]],
                         "ok")

\* enableUser2fa without the check of the code
enableUser2fa_anyCode(us, user, code) ==
    IF user \notin DOMAIN us THEN TwoFactorResult(us, "NoUser")
    ELSE LET twoFactorAuthentication == us[user]
         IN  IF twoFactorAuthentication = NoTwoFactor
                \/ twoFactorAuthentication.secret = "-"
             THEN TwoFactorResult(us, "NoSecret")
             ELSE TwoFactorResult(
                      [us EXCEPT ![user] = [twoFactorAuthentication
                                              EXCEPT !.type = "otp"]],
                      "ok")

\* enableUser2fa(code), called by user
enableUser2fa(us, user, code) ==
    IF user \notin DOMAIN us THEN TwoFactorResult(us, "NoUser")
    ELSE LET twoFactorAuthentication == us[user]
         IN  IF twoFactorAuthentication = NoTwoFactor
                \/ twoFactorAuthentication.secret = "-"
             THEN TwoFactorResult(us, "NoSecret")
             ELSE IF ~isTokenValid(twoFactorAuthentication.secret, code)
             THEN TwoFactorResult(us, "InvalidToken")
             ELSE TwoFactorResult(
                      [us EXCEPT ![user] = [twoFactorAuthentication
                                              EXCEPT !.type = "otp"]],
                      "ok")

\* disableUser2fa(), called by user
disableUser2fa(us, user) ==
    IF user \notin DOMAIN us THEN TwoFactorResult(us, "NoUser")
    ELSE TwoFactorResult([us EXCEPT ![user] = NoTwoFactor], "ok")

\* a method call; user is Meteor.user(), "-" when nobody is logged in
ApplyTwoFactor(res, call) ==
    /\ last = NoCall
    /\ users' = res.users
    /\ last' = [call EXCEPT !.err = res.err]
    /\ UNCHANGED <<roles, roleAssignment, procs>>

Generate2faActivationQrCode ==
    \E user \in Usernames \cup {"-"}, secret \in Secrets :
        ApplyTwoFactor(generate2faActivationQrCode(users, user, secret),
                       [NoCall EXCEPT !.op = "generate2faActivationQrCode",
                                      !.user = user, !.other = secret])

EnableUser2fa ==
    \E user \in Usernames \cup {"-"}, code \in Codes :
        ApplyTwoFactor(enableUser2fa(users, user, code),
                       [NoCall EXCEPT !.op = "enableUser2fa",
                                      !.user = user, !.other = code])

DisableUser2fa ==
    \E user \in Usernames \cup {"-"} :
        ApplyTwoFactor(disableUser2fa(users, user),
                       [NoCall EXCEPT !.op = "disableUser2fa", !.user = user])

NextTwoFactor ==
    \/ Generate2faActivationQrCode
    \/ EnableUser2fa
    \/ DisableUser2fa
    \/ Return
SpecTwoFactor == Init /\ [][NextTwoFactor]_vars

\* ------------------------------------------------------------------
\* The role graph, read directly from the children arrays

ChildrenOf(rs, S) == {c \in RoleNames : \E p \in S \cap DOMAIN rs : Has(rs[p], c)}
RECURSIVE ReachFix(_, _)
ReachFix(rs, S) ==
    LET more == S \cup ChildrenOf(rs, S)
    IN  IF more = S THEN S ELSE ReachFix(rs, more)
\* the roles reached from r by one or more child edges
ReachableFrom(rs, r) == ReachFix(rs, ChildrenOf(rs, {r}))
\* the roles from which r is reached by one or more child edges
AncestorsIn(rs, r) == {a \in DOMAIN rs : r \in ReachableFrom(rs, a)}
LiveClosure(rs, r) == {r} \cup ReachableFrom(rs, r)

Called(op) == last.op = op
TripleCount(as, u, r, s) == Count({d \in as : IsTriple(d, u, r, s)})

\* ------------------------------------------------------------------
\* C1: in every state reached by createRole, addParent, removeParent,
\* renameRole and deleteRole calls run one at a time, no role is reachable
\* from itself by one or more child edges.
C1_Acyclic == \A r \in DOMAIN roles : r \notin ReachableFrom(roles, r)

\* C2: between calls, every assignment's inheritedRoles holds exactly the
\* assigned role and the roles reachable from it by child edges.
C2_ClosureCorrect ==
    \A d \in roleAssignment : Ids(d.inheritedRoles) = LiveClosure(roles, d.role)

\* C3: between calls, userIsInRole(P, [R]) with global scope is true exactly
\* when P has a global assignment of R or of a role from which R is reachable.
C3_MembershipFollowsInheritance ==
    \A P \in Users, R \in RoleNames :
        userIsInRoleAsync(roleAssignment, P, {R}, GLOBAL_GROUP, FALSE)
            <=> \E d \in roleAssignment :
                    /\ d.user = P
                    /\ d.scope = GLOBAL_GROUP
                    /\ R \in LiveClosure(roles, d.role)

\* C4: addParent(role, parent) with parent, another role, reachable from
\* role through child edges fails with CycleDetected and leaves both
\* collections as they were.
C4_CycleRejected ==
    [][(/\ last'.op = "addRoleToParent"
        /\ last'.roleName \in DOMAIN roles
        /\ last'.roleName # last'.other
        /\ last'.other \in ReachableFrom(roles, last'.roleName))
       => (/\ last'.err = "CycleDetected"
           /\ roles' = roles
           /\ roleAssignment' = roleAssignment)]_vars

\* C5: addParent(r, r) for an existing role r fails with CycleDetected and
\* r is not added to its own children.
C5_SelfParentRejected ==
    [][(/\ last'.op = "addRoleToParent"
        /\ last'.roleName = last'.other
        /\ last'.roleName \in DOMAIN roles)
       => (/\ last'.err = "CycleDetected"
           /\ roles'[last'.roleName] = roles[last'.roleName])]_vars

\* C6 as stated: right after removeUserFromRole(P, R, scope = S),
\* userIsInRole(P, R, scope = S) is false and no (P, R, S) record exists.
C6_RevocationAsStated ==
    (Called("removeUserFromRole") /\ ~last.flag2)
    => (/\ TripleCount(roleAssignment, last.user, last.roleName, last.scope) = 0
        /\ ~userIsInRoleAsync(roleAssignment, last.user, {last.roleName},
                              last.scope, FALSE))

\* C6 amended: right after removeUserFromRole(P, R, scope = S) no (P, R, S)
\* record exists, and userIsInRole(P, R, scope = S) is true only if another
\* assignment of P, in scope S or the global scope, still inherits R.
C6_RevocationComplete ==
    (Called("removeUserFromRole") /\ ~last.flag2)
    => (/\ TripleCount(roleAssignment, last.user, last.roleName, last.scope) = 0
        /\ userIsInRoleAsync(roleAssignment, last.user, {last.roleName},
                             last.scope, FALSE)
           => \E d \in roleAssignment :
                  /\ d.user = last.user
                  /\ d.scope \in {last.scope, GLOBAL_GROUP}
                  /\ ~(d.role = last.roleName /\ d.scope = last.scope)
                  /\ Has(d.inheritedRoles, last.roleName))

\* C6 witness: a revocation in scope s1 has removed nothing of the user's
\* global assignment, which still grants the role in s1.
C6_Witness ==
    /\ Called("removeUserFromRole") /\ ~last.flag2
    /\ last.scope = "s1"
    /\ TripleCount(roleAssignment, last.user, last.roleName, GLOBAL_GROUP) = 1
    /\ userIsInRoleAsync(roleAssignment, last.user, {last.roleName}, "s1", FALSE)

\* C7 as stated: after addUserToRole(P, R, scope = S) on an existing role
\* there is exactly one record for (P, R, S).
C7_OneRecordAsStated ==
    (Called("addUserToRole") /\ last.err = "ok" /\ last.roleName \in DOMAIN roles)
    => TripleCount(roleAssignment, last.user, last.roleName, last.scope) = 1

\* C7 amended: a second addUserToRole(P, R, scope = S) changes neither
\* collection, hence no answer of a query; the first leaves one (P, R, S)
\* record when there was none and the records there were otherwise.
C7_IdempotentGrant ==
    [][(last'.op = "addUserToRole" /\ last'.err = "ok" /\ last'.roleName \in DOMAIN roles)
       => LET again == _addUserToRoleAsync(roles', roleAssignment', last'.user,
                                           last'.roleName, last'.scope, last'.flag)
              before == TripleCount(roleAssignment, last'.user, last'.roleName,
                                    last'.scope)
          IN  /\ again.roleAssignment = roleAssignment'
              /\ again.roles = roles'
              /\ again.err = "ok"
              /\ TripleCount(roleAssignment', last'.user, last'.roleName, last'.scope)
                    = IF before = 0 THEN 1 ELSE before
              /\ \A P \in Users, R \in RoleNames, S \in Scopes, any \in BOOLEAN :
                    userIsInRoleAsync(again.roleAssignment, P, {R}, S, any)
                       = userIsInRoleAsync(roleAssignment', P, {R}, S, any)]_vars

\* C7 witness: a grant was repeated on a triple already held.
C7_Witness ==
    /\ Called("addUserToRole") /\ last.err = "ok"
    /\ TripleCount(roleAssignment, last.user, last.roleName, last.scope) = 1
    /\ SumN(roleAssignment) = 2

\* C8: userIsInRole(P, R) before renameRole(R, R2), R2 unused, equals
\* userIsInRole(P, R2) after it, and userIsInRole(P, Q) is unchanged for
\* every other role Q.
C8_RenamePreservesMembership ==
    [][(/\ last'.op = "renameRole" /\ last'.err = "ok"
        /\ last'.roleName # last'.other)
       => \A P \in Users, S \in Scopes, any \in BOOLEAN :
            /\ userIsInRoleAsync(roleAssignment, P, {last'.roleName}, S, any)
                 = userIsInRoleAsync(roleAssignment', P, {last'.other}, S, any)
            /\ \A Q \in RoleNames \ {last'.roleName, last'.other} :
                 userIsInRoleAsync(roleAssignment, P, {Q}, S, any)
                   = userIsInRoleAsync(roleAssignment', P, {Q}, S, any)]_vars

\* C8 witness: a role was renamed that a user holds by inheritance only.
C8_Witness ==
    /\ Called("renameRole") /\ last.err = "ok" /\ last.roleName # last.other
    /\ \E d \in roleAssignment :
          d.role # last.other /\ Has(d.inheritedRoles, last.other)

\* C9: after deleteRole(name) the role record is gone, no children array
\* names it, no assignment has it as assigned role, and a user who held it
\* directly is no longer in it.
C9_DeleteRoleRemoves ==
    [][last'.op = "deleteRole"
       => LET name == last'.roleName
          IN  /\ name \notin DOMAIN roles'
              /\ \A r \in DOMAIN roles' : ~Has(roles'[r], name)
              /\ \A d \in roleAssignment' : d.role # name
              /\ \A u \in Users :
                    (\E d \in roleAssignment : d.user = u /\ d.role = name)
                    => \A S \in Scopes :
                          ~userIsInRoleAsync(roleAssignment', u, {name}, S, TRUE)]_vars

\* C9 witness: a role held directly by a user and listed as a child of
\* another role has been deleted.
C9_Witness ==
    /\ Called("deleteRole")
    /\ last.roleName \notin DOMAIN roles
    /\ roleAssignment = {}
    /\ \E r \in DOMAIN roles : Ids(roles[r]) # {}

\* C10: after deleteRole(name) no inheritedRoles names it, and every
\* assignment of a parent or farther ancestor of name holds the live closure
\* of its role in the graph without name.
C10_DeleteRoleRepairsAncestors ==
    [][last'.op = "deleteRole"
       => LET name == last'.roleName
          IN  /\ \A d \in roleAssignment' : ~Has(d.inheritedRoles, name)
              /\ \A d \in roleAssignment' :
                    d.role \in AncestorsIn(roles, name)
                    => Ids(d.inheritedRoles) = LiveClosure(roles', d.role)]_vars

\* C11: createRole(name) on an existing role fails with AlreadyExists when
\* unlessExists is not set and returns no identifier when it is set, changing
\* nothing either way; on a new name it inserts a role with empty children
\* and returns its identifier.
C11_CreateRoleErrors ==
    [][last'.op = "createRole"
       => IF last'.roleName \in DOMAIN roles
          THEN /\ last'.err = (IF last'.flag THEN "null" ELSE "AlreadyExists")
               /\ roles' = roles
               /\ roleAssignment' = roleAssignment
          ELSE /\ last'.err = "ok"
               /\ DOMAIN roles' = DOMAIN roles \cup {last'.roleName}
               /\ roles'[last'.roleName] = EmptyArr
               /\ \A x \in DOMAIN roles : roles'[x] = roles[x]
               /\ roleAssignment' = roleAssignment]_vars

\* C12 as stated: addParent(role, parent) fails with NotFound when role
\* does not exist and also when parent does not exist, and changes nothing
\* in either case.
C12_NotFoundAsStated ==
    [][(/\ last'.op = "addRoleToParent"
        /\ (last'.roleName \notin DOMAIN roles \/ last'.other \notin DOMAIN roles))
       => (/\ last'.err = "NotFound"
           /\ roles' = roles
           /\ roleAssignment' = roleAssignment)]_vars

\* C12 amended: addParent(role, parent) fails with NotFound when role does
\* not exist; when role exists and parent does not, it returns normally;
\* in either case neither collection is changed.
C12_AddParentNotFound ==
    [][(/\ last'.op = "addRoleToParent"
        /\ (last'.roleName \notin DOMAIN roles \/ last'.other \notin DOMAIN roles))
       => (/\ last'.err = (IF last'.roleName \notin DOMAIN roles
                           THEN "NotFound" ELSE "ok")
           /\ roles' = roles
           /\ roleAssignment' = roleAssignment)]_vars

\* C12 witness: addParent has returned normally for an existing role and a
\* parent that does not exist, with an assignment in the store.
C12_Witness ==
    /\ Called("addRoleToParent") /\ last.err = "ok"
    /\ last.roleName \in DOMAIN roles
    /\ last.other \notin DOMAIN roles
    /\ roleAssignment # {}

\* C13: addParent(role, parent) with role already in parent.children
\* changes neither collection, and in every reachable state no children
\* array lists the same child twice.
C13_IdempotentEdge ==
    /\ [](\A p \in DOMAIN roles : \A c \in RoleNames : roles[p][c] <= 1)
    /\ [][(/\ last'.op = "addRoleToParent"
           /\ last'.roleName \in DOMAIN roles
           /\ last'.other \in DOMAIN roles
           /\ Has(roles[last'.other], last'.roleName))
          => (roles' = roles /\ roleAssignment' = roleAssignment)]_vars

\* C13 witness: addParent has returned for an edge that was there before
\* the call: an assignment made after the edge was added names the parent
\* and not the child, which a first addition of the edge would have pushed.
C13_Witness ==
    /\ Called("addRoleToParent") /\ last.err = "ok"
    /\ last.other \in DOMAIN roles
    /\ roles[last.other][last.roleName] = 1
    /\ \E d \in roleAssignment :
          Has(d.inheritedRoles, last.other) /\ ~Has(d.inheritedRoles, last.roleName)

\* C14: with guest reachable from admin through editor and through viewer,
\* removeParent(guest, editor) leaves guest in the inheritedRoles of every
\* assignment of admin that had it (guest stays reachable through viewer)
\* and in none of editor; in general, after removeParent(role, parent) of
\* an edge, an assignment that had role keeps it if its assigned role still
\* reaches role, and no assignment of parent or of an ancestor of parent
\* that no longer reaches role has it.
C14_DiamondSafe ==
    [][(/\ last'.op = "removeRoleFromParent" /\ last'.err = "ok"
        /\ last'.other \in DOMAIN roles
        /\ Has(roles[last'.other], last'.roleName))
       => \A d \in roleAssignment' :
            /\ (/\ last'.roleName \in ReachableFrom(roles', d.role)
                /\ \E b \in roleAssignment :
                      /\ IsTriple(b, d.user, d.role, d.scope)
                      /\ Has(b.inheritedRoles, last'.roleName))
               => Has(d.inheritedRoles, last'.roleName)
            /\ (/\ d.role \in AncestorsIn(roles, last'.other) \cup {last'.other}
                /\ last'.roleName \notin LiveClosure(roles', d.role))
               => ~Has(d.inheritedRoles, last'.roleName)]_vars

\* C15: removeParent(role, parent) fails with NotFound when role does not
\* exist; when role exists and is not in parent.children, or parent does
\* not exist, it returns normally; in all these cases neither collection
\* is changed.
C15_RemoveParentFrame ==
    [][(/\ last'.op = "removeRoleFromParent"
        /\ \/ last'.roleName \notin DOMAIN roles
           \/ last'.other \notin DOMAIN roles
           \/ ~Has(roles[last'.other], last'.roleName))
       => (/\ last'.err = (IF last'.roleName \notin DOMAIN roles
                           THEN "NotFound" ELSE "ok")
           /\ roles' = roles
           /\ roleAssignment' = roleAssignment)]_vars

\* C16: addUserToRole(P, R, scope) for a role R that does not exist fails
\* with NotFound when ifExists is not set and returns normally when it is
\* set; either way no assignment is created or modified.
C16_AddUserNotFound ==
    [][(last'.op = "addUserToRole" /\ last'.roleName \notin DOMAIN roles)
       => (/\ last'.err = (IF last'.flag THEN "ok" ELSE "NotFound")
           /\ roleAssignment' = roleAssignment
           /\ roles' = roles)]_vars

\* C16 witness: addUserToRole with ifExists has returned normally for a
\* role that does not exist, with assignments in the store.
C16_Witness ==
    /\ Called("addUserToRole") /\ last.flag /\ last.err = "ok"
    /\ last.roleName \notin DOMAIN roles
    /\ roleAssignment # {}

\* C17: when addUserToRole(P, R, scope) inserts a new assignment, that
\* record's inheritedRoles is R together with every role reachable from R
\* by child edges at the time of the call.
C17_ClosureAtInsert ==
    [][(/\ last'.op = "addUserToRole" /\ last'.err = "ok"
        /\ last'.roleName \in DOMAIN roles
        /\ TripleCount(roleAssignment, last'.user, last'.roleName, last'.scope) = 0)
       => \E d \in roleAssignment' :
            /\ IsTriple(d, last'.user, last'.roleName, last'.scope)
            /\ Ids(d.inheritedRoles) = LiveClosure(roles, last'.roleName)]_vars

\* C18: after setUserRoles(P, roles, scope = S) with all roles existing,
\* the roles directly assigned to P in scope S are exactly roles; without
\* anyScope the assignments of P in other scopes are unchanged, with
\* anyScope P has none in another scope; the assignments of other users
\* are unchanged.
C18_SetUserRolesReplaces ==
    [][(/\ last'.op = "setUserRoles" /\ last'.err = "ok"
        /\ \A i \in DOMAIN last'.list : last'.list[i] \in DOMAIN roles)
       => LET P == last'.user
              S == last'.scope
              Elsewhere(as) == {d \in as : d.user = P /\ d.scope # S}
          IN  /\ {d.role : d \in {e \in roleAssignment' : e.user = P /\ e.scope = S}}
                    = {last'.list[i] : i \in DOMAIN last'.list}
              /\ IF last'.flag2
                 THEN Elsewhere(roleAssignment') = {}
                 ELSE Elsewhere(roleAssignment') = Elsewhere(roleAssignment)
              /\ {d \in roleAssignment' : d.user # P}
                    = {d \in roleAssignment : d.user # P}]_vars

\* C18 witness: setUserRoles without anyScope has replaced a user's role in
\* one scope while the same user keeps an assignment in the other scope.
C18_Witness ==
    /\ Called("setUserRoles") /\ last.err = "ok" /\ ~last.flag2
    /\ Len(last.list) = 1
    /\ TripleCount(roleAssignment, last.user, last.list[1], last.scope) = 1
    /\ \E d \in roleAssignment : d.user = last.user /\ d.scope # last.scope

\* C19: removeUserFromRole(P, R, scope = S) without anyScope deletes
\* exactly the assignments of (P, R, S), with anyScope exactly those of
\* (P, R) in every scope, the global one included; every other assignment
\* and the roles collection are unchanged.
C19_RemoveUserFrame ==
    [][last'.op = "removeUserFromRole"
       => (/\ roleAssignment'
                = {d \in roleAssignment :
                     ~(/\ d.user = last'.user
                       /\ d.role = last'.roleName
                       /\ (last'.flag2 \/ d.scope = last'.scope))}
           /\ roles' = roles
           /\ last'.err = "ok")]_vars

\* C19 witness: removeUserFromRole(P, R, scope = S) without anyScope has
\* left no (P, R, S) record and kept P's assignment of R in another scope.
C19_Witness ==
    /\ Called("removeUserFromRole") /\ ~last.flag2
    /\ TripleCount(roleAssignment, last.user, last.roleName, last.scope) = 0
    /\ \E d \in roleAssignment :
          d.user = last.user /\ d.role = last.roleName /\ d.scope # last.scope

\* the scopes userIsInRole is asked about: those of the assignments and one
\* no assignment has
QueryScopes == Scopes \cup {"s2"}

\* C20: if P has an assignment of R with global scope, userIsInRole(P, R,
\* scope = S) is true for every S; if every assignment of P that inherits R
\* has the named scope S1, userIsInRole(P, R, scope = S2) is false for every
\* S2 other than S1, no scope included, and userIsInRole(P, R, anyScope) is
\* true.
C20_GlobalAndScoped ==
    \A P \in Users, R \in RoleNames :
        LET inheriting == {d \in roleAssignment :
                              d.user = P /\ Has(d.inheritedRoles, R)}
        IN  /\ (\E d \in roleAssignment : IsTriple(d, P, R, GLOBAL_GROUP))
               => \A S \in QueryScopes :
                     userIsInRoleAsync(roleAssignment, P, {R}, S, FALSE)
            /\ \A S1 \in Scopes \ {GLOBAL_GROUP} :
                  (inheriting # {} /\ \A d \in inheriting : d.scope = S1)
                  => /\ \A S2 \in QueryScopes \ {S1} :
                          ~userIsInRoleAsync(roleAssignment, P, {R}, S2, FALSE)
                     /\ userIsInRoleAsync(roleAssignment, P, {R}, S1, FALSE)
                     /\ \A S \in QueryScopes :
                          userIsInRoleAsync(roleAssignment, P, {R}, S, TRUE)

\* C20 witness: one user holds a role globally and another holds the same
\* role in scope s1 only.
C20_Witness ==
    \E P1, P2 \in Users, R \in RoleNames :
        /\ P1 # P2
        /\ TripleCount(roleAssignment, P1, R, GLOBAL_GROUP) = 1
        /\ TripleCount(roleAssignment, P2, R, "s1") = 1
        /\ TripleCount(roleAssignment, P2, R, GLOBAL_GROUP) = 0

C22_UsersInRoleInverse ==
    \A Rs \in SUBSET RoleNames, S \in QueryScopes, any \in BOOLEAN, P \in Users :
        P \in getUsersInRoleAsync(roleAssignment, Rs, S, any)
            <=> userIsInRoleAsync(roleAssignment, P, Rs, S, any)

\* C22 witness: one user is in a role by inheritance only, in scope s1, and
\* the other user is not in it.
C22_Witness ==
    \E R \in RoleNames :
        /\ getUsersInRoleAsync(roleAssignment, {R}, "s1", FALSE) # {}
        /\ getUsersInRoleAsync(roleAssignment, {R}, "s1", FALSE) # Users
        /\ \A d \in roleAssignment : d.role # R
        /\ \E d \in roleAssignment : d.user \in Users \ 
              getUsersInRoleAsync(roleAssignment, {R}, "s1", FALSE)

\* C23: scopesForUser(P, roles?) is exactly the set of non-global scopes of
\* P's assignments, restricted when roles is given to the assignments whose
\* inheritedRoles names one of roles; it never holds the global scope nor a
\* scope in which P has no assignment.
C23_ScopesForUser ==
    \A P \in Users :
        /\ getScopesForUserAsync(roleAssignment, P, FALSE, {})
              = {S \in Scopes \ {GLOBAL_GROUP} :
                    \E d \in roleAssignment : d.user = P /\ d.scope = S}
        /\ \A Rs \in SUBSET RoleNames :
              LET scopes == getScopesForUserAsync(roleAssignment, P, TRUE, Rs)
              IN  /\ scopes = {S \in Scopes \ {GLOBAL_GROUP} :
                                 \E d \in roleAssignment :
                                     /\ d.user = P /\ d.scope = S
                                     /\ Ids(d.inheritedRoles) \cap Rs # {}}
                  /\ GLOBAL_GROUP \notin scopes
                  /\ \A S \in scopes :
                        \E d \in roleAssignment : d.user = P /\ d.scope = S

\* C23 witness: a user has a global assignment and an assignment in scope
\* s1, of different roles, so that restricting by role changes the answer.
C23_Witness ==
    \E P \in Users, R \in RoleNames :
        /\ \E d \in roleAssignment : d.user = P /\ d.scope = GLOBAL_GROUP
        /\ getScopesForUserAsync(roleAssignment, P, FALSE, {}) = {"s1"}
        /\ getScopesForUserAsync(roleAssignment, P, TRUE, {R}) = {}

\* C24: isAncestorOf(a, d) returns true when a equals d, otherwise true if
\* d is reached from a by child edges through existing role records and
\* false if not, in particular when a has no role record.
C24_IsAncestorOf ==
    \A a \in RoleNames, d \in RoleNames, order \in OrdersOf(RoleNames) :
        isParentOfAsync(roles, a, d, order)
            = IF a = d \/ d \in ReachableFrom(roles, a) THEN "true" ELSE "false"

\* C25: renameRole(oldName, newName) fails with NotFound when oldName does
\* not exist and fails when newName, another name, is already a role; in
\* both cases neither collection is changed.
C25_RenameRoleErrors ==
    [][(/\ last'.op = "renameRole" /\ last'.roleName # last'.other
        /\ (last'.roleName \notin DOMAIN roles \/ last'.other \in DOMAIN roles))
       => (/\ last'.err = (IF last'.roleName \notin DOMAIN roles
                           THEN "NotFound" ELSE "DuplicateKey")
           /\ roles' = roles
           /\ roleAssignment' = roleAssignment)]_vars

\* C25 witness: renameRole has failed on an existing newName, for an
\* oldName that a user is assigned and another role has as a child.
C25_Witness ==
    /\ Called("renameRole") /\ last.err = "DuplicateKey"
    /\ \E d \in roleAssignment : d.role = last.roleName
    /\ \E p \in DOMAIN roles : Has(roles[p], last.roleName)

\* an array with every oldName in it replaced by newName
Renamed(a, oldName, newName) ==
    [x \in RoleNames |-> IF x = oldName THEN 0
                         ELSE IF x = newName THEN a[newName] + a[oldName]
                         ELSE a[x]]

\* C26: after a successful renameRole(oldName, newName) nothing names
\* oldName, newName is a role with the children oldName had, every role
\* that had oldName as a child has newName instead, and both collections
\* are the ones before the call with oldName replaced by newName.
C26_RenameRoleEffects ==
    [][(/\ last'.op = "renameRole" /\ last'.err = "ok"
        /\ last'.roleName # last'.other)
       => LET oldName == last'.roleName
              newName == last'.other
          IN  /\ oldName \notin DOMAIN roles'
              /\ \A x \in DOMAIN roles' : ~Has(roles'[x], oldName)
              /\ \A d \in roleAssignment' :
                    d.role # oldName /\ ~Has(d.inheritedRoles, oldName)
              /\ DOMAIN roles' = (DOMAIN roles \ {oldName}) \cup {newName}
              /\ \A x \in DOMAIN roles' :
                    roles'[x] = Renamed(roles[IF x = newName THEN oldName ELSE x],
                                        oldName, newName)
              /\ roleAssignment'
                    = {[d EXCEPT !.role = IF @ = oldName THEN newName ELSE @,
                                 !.inheritedRoles = Renamed(@, oldName, newName)]
                       : d \in roleAssignment}]_vars

\* C26 witness: a role has been renamed that a user is assigned and that
\* another role has as a child.
C26_Witness ==
    /\ Called("renameRole") /\ last.err = "ok" /\ last.roleName # last.other
    /\ \E d \in roleAssignment : d.role = last.other
    /\ \E p \in DOMAIN roles : p # last.other /\ Has(roles[p], last.other)

\* the call recorded in c was made with a role name or a scope name that is
\* not valid (setUserRoles: with one role name, as the other calls)
InvalidNameIn(c) ==
    \/ /\ c.op \in {"createRole", "deleteRole", "renameRole", "addRoleToParent",
                    "removeRoleFromParent", "addUserToRole", "removeUserFromRole"}
       /\ ~_checkRoleName(c.roleName)
    \/ /\ c.op \in {"renameRole", "addRoleToParent", "removeRoleFromParent"}
       /\ ~_checkRoleName(c.other)
    \/ /\ c.op = "setUserRoles"
       /\ Len(c.list) = 1 /\ ~_checkRoleName(c.list[1])
    \/ /\ c.op \in {"addUserToRole", "removeUserFromRole", "setUserRoles",
                    "renameScope", "removeScope"}
       /\ ~_checkScopeName(c.scope)
    \/ /\ c.op = "renameScope"
       /\ ~_checkScopeName(c.other)

\* C27: every mutating operation called with a role name that is empty or
\* has leading or trailing whitespace, or with such a scope name, fails
\* with InvalidName and has written to neither collection; a null scope is
\* accepted as the global scope.
C27_InvalidNames ==
    [][(last' # NoCall)
       => /\ InvalidNameIn(last')
             => (/\ last'.err = "InvalidName"
                 /\ roles' = roles
                 /\ roleAssignment' = roleAssignment)
          /\ last'.err = "InvalidName"
             => \/ InvalidNameIn(last')
                \/ \E i \in DOMAIN last'.list : ~_checkRoleName(last'.list[i])]_vars

\* assignment d after renameScope(oldName, newName), its count apart
Rescoped(d, oldName, newName) ==
    [d EXCEPT !.scope = IF @ = oldName THEN newName ELSE @, !.n = 0]

\* C28: removeScope(S) deletes exactly the assignments whose scope is S;
\* renameScope(S, S2) gives scope S2 to exactly the assignments whose scope
\* was S and changes nothing else of any assignment, so that, when no
\* assignment had scope S2, userIsInRole(P, R, scope = S) before the call
\* equals userIsInRole(P, R, scope = S2) after it.
C28_ScopeLifecycle ==
    [][/\ last'.op = "removeScope"
          => /\ roleAssignment' = {d \in roleAssignment : d.scope # last'.scope}
             /\ roles' = roles
       /\ (last'.op = "renameScope" /\ last'.scope # last'.other)
          => LET S == last'.scope
                 S2 == last'.other
             IN  /\ {[d EXCEPT !.n = 0] : d \in roleAssignment'}
                       = {Rescoped(d, S, S2) : d \in roleAssignment}
                 /\ \A e \in roleAssignment' :
                       e.n = SumN({d \in roleAssignment :
                                     Rescoped(d, S, S2) = [e EXCEPT !.n = 0]})
                 /\ roles' = roles
                 /\ (\A d \in roleAssignment : d.scope # S2)
                    => \A P \in Users, R \in RoleNames :
                          userIsInRoleAsync(roleAssignment, P, {R}, S, FALSE)
                            = userIsInRoleAsync(roleAssignment', P, {R}, S2, FALSE)]_vars

\* C28 witness: a named scope has been renamed to another named scope:
\* no assignment has the old scope, one has the new scope and one, global,
\* was not concerned.
C28_Witness ==
    /\ Called("renameScope") /\ last.err = "ok"
    /\ last.scope \notin {GLOBAL_GROUP, last.other}
    /\ last.other # GLOBAL_GROUP
    /\ \A d \in roleAssignment : d.scope # last.scope
    /\ \E d \in roleAssignment : d.scope = last.other
    /\ \E d \in roleAssignment : d.scope = GLOBAL_GROUP

\* a do-while loop has ended on the first pass that matched nothing
EndedOnNoMatch(counts) ==
    /\ Len(counts) >= 1
    /\ counts[Len(counts)] = 0
    /\ \A i \in 1..(Len(counts) - 1) : counts[i] > 0

\* the largest number of copies of old in one of the arrays
MostCopies(arrays, old) ==
    CHOOSE m \in 0..MaxCopies :
        /\ \A a \in arrays : a[old] <= m
        /\ m = 0 \/ \E a \in arrays : a[old] = m

\* C29: run without concurrent writers, with an update that rewrites one
\* matching array element per document, every converge-until-stable loop
\* ends: the three loops of renameRole (one pass per copy of oldName in an
\* array, then the pass that matches nothing), the loop of renameScope and
\* the parent-repair loop of deleteRole; each ends on the first pass that
\* matches nothing, and no document matching its filter is left.
C29_LoopsTerminate ==
    [][/\ last'.err # "loops"
       /\ (last'.op = "renameRole" /\ last'.err = "ok"
              /\ last'.roleName # last'.other)
          => LET oldName == last'.roleName
                 loops == renameRoleLoops(roles, roleAssignment, oldName,
                                          last'.other)
             IN  /\ \A i \in 1..3 : loops[i].done /\ EndedOnNoMatch(loops[i].counts)
                 /\ Len(loops[1].counts)
                       = IF \E d \in roleAssignment : d.role = oldName
                         THEN 2 ELSE 1
                 /\ Len(loops[2].counts)
                       = 1 + MostCopies({d.inheritedRoles : d \in roleAssignment},
                                        oldName)
                 /\ Len(loops[3].counts)
                       = 1 + MostCopies({roles[x] : x \in DOMAIN roles}, oldName)
                 /\ Matching(roleAssignment', "role._id", oldName) = {}
                 /\ Matching(roleAssignment', "inheritedRoles._id", oldName) = {}
                 /\ Matching(roles', "children._id", oldName) = {}
       /\ (last'.op = "renameScope" /\ last'.err = "ok"
              /\ last'.scope # last'.other)
          => LET loop == UntilNoMatch(roleAssignment, "scope", last'.scope,
                                      last'.other, <<>>)
             IN  /\ loop.done /\ EndedOnNoMatch(loop.counts)
                 /\ Len(loop.counts)
                       = IF \E d \in roleAssignment : d.scope = last'.scope
                         THEN 2 ELSE 1
                 /\ Matching(roleAssignment', "scope", last'.scope) = {}
       /\ (last'.op = "deleteRole" /\ last'.err = "ok")
          => LET roleName == last'.roleName
                 parents == _getParentRoleNames(roles, roleName)
             IN  /\ \A order \in OrdersOf(parents) :
                       LET loop == DeleteRoleLoop(roles, roleAssignment,
                                                  roleName, order, <<>>)
                       IN  /\ loop.done /\ EndedOnNoMatch(loop.lengths)
                           /\ Len(loop.lengths) = IF parents = {} THEN 1 ELSE 2
                 /\ Matching(roles', "children._id", roleName) = {}]_vars

\* C29 witness: a role has been renamed whose name an inheritedRoles array
\* held twice; the array holds the new name twice.
C29_Witness ==
    /\ Called("renameRole") /\ last.err = "ok"
    /\ last.roleName # last.other
    /\ \E d \in roleAssignment : d.inheritedRoles[last.other] = 2

\* C30: inheritedRoles is a set: no assignment's inheritedRoles lists the
\* same role twice, also after addParent has added a role under a parent
\* whose assignments inherit that role through another path already.
C30_InheritedRolesIsSet ==
    \A d \in roleAssignment : \A x \in RoleNames : d.inheritedRoles[x] <= 1

\* two calls of the same function with the same role and parent
SameEdge(c1, c2, op) ==
    /\ c1.op = op /\ c2.op = op
    /\ c1.roleName = c2.roleName /\ c1.other = c2.other

\* C31: however the store calls of two addParent(role, parent) calls for
\* the same edge interleave, role is in parent.children at most once: the
\* update that inserts the edge matches only a parent that has not the
\* child, so at most one of the two calls finds a document to update.
C31_EdgeInsertedOnce ==
    /\ \A x \in DOMAIN roles : \A c \in RoleNames : roles[x][c] <= 1
    /\ (/\ SameEdge(procs["p1"], procs["p2"], "addRoleToParent")
        /\ procs["p1"].pc # "idle" /\ procs["p2"].pc # "idle")
       => procs["p1"].count + procs["p2"].count <= 1

\* C31 witness: of two addParent calls for one edge between two roles, the
\* first has inserted the edge and has not ended, and the second has ended
\* after its update matched nothing.
C31_Witness ==
    /\ SameEdge(procs["p1"], procs["p2"], "addRoleToParent")
    /\ procs["p1"].roleName # procs["p1"].other
    /\ procs["p1"].pc = "pushInherited" /\ procs["p1"].count = 1
    /\ procs["p2"].pc = "done" /\ procs["p2"].err = "ok"
    /\ procs["p2"].count = 0
    /\ roles[procs["p1"].other][procs["p1"].roleName] = 1

\* addParent(a, b) and addParent(b, a) for two roles a and b
Reversed(c1, c2) ==
    /\ c1.op = "addRoleToParent" /\ c2.op = "addRoleToParent"
    /\ c1.roleName = c2.other /\ c1.other = c2.roleName
    /\ c1.roleName # c1.other

\* C32: addParent(a, b) and addParent(b, a) both succeed and leave the cycle
\* a -> b -> a only when they overlap so that both cycle checks run before
\* either edge is written, each call having fetched its role without the
\* other's edge; run one after the other they leave no cycle.
C32_CycleOnlyFromOverlap ==
    (/\ Reversed(procs["p1"], procs["p2"])
     /\ \A p \in Procs : /\ procs[p].pc = "done" /\ procs[p].err = "ok"
                         /\ procs[p].count = 1)
    => \A p \in Procs : ~Has(procs[p].role.children, procs[p].other)

\* C33: the removeAsync of removeUserFromRole(P, R, scope = S) removes every
\* record of (P, R, S), two when overlapping addUserToRole calls have
\* inserted the triple twice, and no other record.
C33_RemovalClearsDuplicates ==
    [][\A p \in Procs :
          (/\ procs[p].op = "removeUserFromRole"
           /\ procs[p].pc = "removeAsync"
           /\ procs'[p].pc = "done")
          => LET c == procs[p]
             IN  /\ TripleCount(roleAssignment', c.user, c.roleName, c.scope) = 0
                 /\ procs'[p].count
                       = TripleCount(roleAssignment, c.user, c.roleName, c.scope)
                 /\ {d \in roleAssignment' : ~IsTriple(d, c.user, c.roleName, c.scope)}
                       = {d \in roleAssignment : ~IsTriple(d, c.user, c.roleName, c.scope)}
                 /\ roles' = roles]_vars

\* C33 witness: a removeUserFromRole has ended after removing two records
\* of its triple, which two overlapping addUserToRole calls had inserted.
C33_Witness ==
    \E p \in Procs :
        /\ procs[p].op = "removeUserFromRole" /\ procs[p].pc = "done"
        /\ procs[p].count = 2
        /\ TripleCount(roleAssignment, procs[p].user, procs[p].roleName,
                       procs[p].scope) = 0

\* C34: once an addUserToRole(P, parent) that inserted a new assignment and
\* an addParent(child, parent) or removeParent(child, parent) have both
\* ended, however their store calls interleaved, the inheritedRoles of the
\* assignment is parent with the roles reachable from parent in the graph
\* as it then is.
C34_StalenessTransient ==
    \A p \in Procs, q \in Procs :
        (/\ procs[p].op = "addUserToRole"
         /\ procs[p].pc = "done" /\ procs[p].err = "ok" /\ procs[p].insertedId
         /\ procs[q].op \in {"addRoleToParent", "removeRoleFromParent"}
         /\ procs[q].pc = "done" /\ procs[q].err = "ok"
         /\ procs[q].other = procs[p].roleName)
        => \A d \in roleAssignment :
              IsTriple(d, procs[p].user, procs[p].roleName, procs[p].scope)
              => Ids(d.inheritedRoles) = LiveClosure(roles, d.role)

\* C35: in an acyclic graph, for existing roles a and b, a is among the
\* ancestors _getParentRoleNamesAsync returns for b exactly when b is among
\* the descendants _getInheritedRoleNamesAsync returns for a; each result
\* is the whole transitive closure, and neither holds its starting role.
C35_TraversalsDual ==
    C1_Acyclic
    => \A a \in DOMAIN roles :
          LET ancestorsOf == _getParentRoleNamesAsync(roles, a)
              descendantsOfA == _getInheritedRoleNamesAsync(roles, RoleDoc(roles, a))
          IN  /\ ancestorsOf = AncestorsIn(roles, a)
              /\ descendantsOfA = ReachableFrom(roles, a)
              /\ a \notin ancestorsOf
              /\ a \notin descendantsOfA
              /\ \A b \in DOMAIN roles :
                    (a \in _getParentRoleNamesAsync(roles, b))
                       <=> (b \in descendantsOfA)

\* C36: in every state reached by calls run one at a time, isAncestorOf
\* (isParentOfAsync) ends with an answer for every pair of role names,
\* and for distinct existing roles a and d the answer is true exactly when
\* d is among the descendants _getInheritedRoleNamesAsync returns for a.
C36_IsAncestorOfTerminates ==
    \A a \in RoleNames, d \in RoleNames, order \in OrdersOf(RoleNames) :
        LET answer == isParentOfAsync(roles, a, d, order)
        IN  /\ answer # "loops"
            /\ (a # d /\ a \in DOMAIN roles /\ d \in DOMAIN roles)
               => (answer = "true"
                     <=> d \in _getInheritedRoleNamesAsync(roles, RoleDoc(roles, a)))

\* C37: a user's two-factor authentication becomes enabled only by an
\* enableUser2fa of that user with a code valid for the stored secret, and
\* stays enabled only while the record is not written; enableUser2fa
\* without a stored secret or with an invalid code fails and changes
\* nothing; generate2faActivationQrCode stores the new secret without a
\* type, so the user reads as not enabled; disableUser2fa removes secret
\* and type.
C37_TwoFactorStateMachine ==
    [][/\ \A u \in Usernames :
             is2faEnabledForUser(users', u)
             => \/ /\ last'.op = "enableUser2fa" /\ last'.user = u
                   /\ last'.err = "ok"
                   /\ isTokenValid(users'[u].secret, last'.other)
                   /\ users'[u].secret = users[u].secret
                \/ /\ is2faEnabledForUser(users, u)
                   /\ users'[u] = users[u]
                   /\ last'.user # u
                      \/ last'.op \notin {"generate2faActivationQrCode",
                                          "disableUser2fa"}
       /\ (/\ last'.op = "enableUser2fa"
           /\ \/ last'.user \notin Usernames
              \/ users[last'.user].secret = "-"
              \/ ~isTokenValid(users[last'.user].secret, last'.other))
          => (last'.err # "ok" /\ users' = users)
       /\ (last'.op = "generate2faActivationQrCode" /\ last'.user \in Usernames)
          => /\ users'[last'.user] = [secret |-> last'.other, type |-> "-"]
             /\ ~is2faEnabledForUser(users', last'.user)
             /\ \A u \in Usernames \ {last'.user} : users'[u] = users[u]
       /\ (last'.op = "disableUser2fa" /\ last'.user \in Usernames)
          => /\ users'[last'.user] = NoTwoFactor
             /\ ~is2faEnabledForUser(users', last'.user)
             /\ \A u \in Usernames \ {last'.user} : users'[u] = users[u]]_vars

\* C37 witness: a user has enabled two-factor authentication with the code
\* of the stored secret while the other user, who holds a secret, is not
\* enabled.
C37_Witness ==
    /\ Called("enableUser2fa") /\ last.err = "ok"
    /\ is2faEnabledForUser(users, last.user)
    /\ \E u \in Usernames \ {last.user} :
          users[u].secret # "-" /\ ~is2faEnabledForUser(users, u)
====
